---- MODULE Spec2Model ----
(***************************************************************************)
(* The TOU scheduler dashboard card.                                       *)
(*                                                                         *)
(* Spec     the component card of src/tou-scheduler-card: the widget       *)
(*          instance, the rendered surface it reads, the browser's timer   *)
(*          list and the service calls it has made.                        *)
(* SpecHold the same card with one configuration and one snapshot, and    *)
(*          presses long enough for the repeat interval to reach its      *)
(*          floor.                                                         *)
(* SpecSettings  the same card with its settings panel and the sliders.   *)
(* SpecConfig    the same card configured again and again.                *)
(* SpecArc  calculateArcPath applied to percentages and radii.             *)
(* SpecWww  the card of src/www/community/tou-scheduler-card: the cached   *)
(*          snapshot and the decision to re-render.                        *)
(*                                                                         *)
(* Time is counted in ms and advances in steps of INTERVAL_FASTEST, the    *)
(* greatest common divisor of every delay of the program.                  *)
(***************************************************************************)
EXTENDS Integers, Sequences, FiniteSets, TLC

VARIABLES
  card,          \* the fields of the TouSchedulerCard instance (this)
  dom,           \* the shadow root: what is rendered and the style the code reads back
  docListeners,  \* mouseup listeners registered on document
  timers,        \* the browser's pending setTimeout / setInterval callbacks
  nCalls,        \* number of hass.callService calls made
  lastCall,      \* the data of the most recent callService call
  renders,       \* number of times render() regenerated the card markup
  ev,            \* the handler that ran last, with its argument
  heldSteps,     \* clock steps the current press has lasted
  nEvents,       \* snapshots received and user inputs so far
  gesture,       \* observer of one press-and-hold gesture, or of one burst of edits
  limits,        \* the bounds of the run: inputs accepted, clock steps of a press
  arc,           \* the arguments of a call of calculateArcPath, and its result
  www,           \* the fields of the www card instance
  proto          \* the inline prototype: its script variables and its timers

vars == <<card, dom, docListeners, timers, nCalls, lastCall, renders, ev, heldSteps,
          nEvents, gesture, limits, arc, www, proto>>

----------------------------------------------------------------------------
\* JavaScript values: undefined, NaN, numbers and strings (a string is the
\* tuple of its characters).

Undefined == [k |-> "undefined", n |-> 0, s |-> <<>>]
NaN == [k |-> "NaN", n |-> 0, s |-> <<>>]
Num(n) == [k |-> "number", n |-> n, s |-> <<>>]
Str(s) == [k |-> "string", n |-> 0, s |-> s]

IsNum(v) == v.k = "number"

\* ToBoolean: undefined, NaN, 0 and "" are falsy.
Truthy(v) ==
  CASE v.k = "undefined" -> FALSE
    [] v.k = "NaN" -> FALSE
    [] v.k = "number" -> v.n # 0
    [] OTHER -> v.s # <<>>

\* a || b
Or(a, b) == IF Truthy(a) THEN a ELSE b

Digits == <<"0", "1", "2", "3", "4", "5", "6", "7", "8", "9">>
IsDigit(c) == \E i \in 1..10 : Digits[i] = c
DigitVal(c) == (CHOOSE i \in 1..10 : Digits[i] = c) - 1

RECURSIVE SkipSpaces(_)
SkipSpaces(s) == IF s # <<>> /\ Head(s) = " " THEN SkipSpaces(Tail(s)) ELSE s

\* Value of the longest prefix of digits of s, given the value acc read so far.
RECURSIVE DigitsPrefix(_, _)
DigitsPrefix(s, acc) ==
  IF s # <<>> /\ IsDigit(Head(s))
  THEN DigitsPrefix(Tail(s), 10 * acc + DigitVal(Head(s)))
  ELSE acc

\* parseInt of a string of characters, radix 10: leading blanks, an optional
\* sign, then the longest run of digits; NaN when there is no digit.
ParseIntChars(s) ==
  LET t == SkipSpaces(s)
      neg == t # <<>> /\ Head(t) = "-"
      u == IF t # <<>> /\ Head(t) \in {"-", "+"} THEN Tail(t) ELSE t
  IN IF u # <<>> /\ IsDigit(Head(u))
     THEN Num(IF neg THEN 0 - DigitsPrefix(u, 0) ELSE DigitsPrefix(u, 0))
     ELSE NaN

\* parseInt(v): numbers of the model are integers and parse to themselves.
parseInt(v) ==
  CASE v.k = "number" -> v
    [] v.k = "string" -> ParseIntChars(v.s)
    [] OTHER -> NaN

\* a + b, a - b on numbers; NaN as soon as one side is undefined or NaN.
JsAdd(a, b) == IF IsNum(a) /\ IsNum(b) THEN Num(a.n + b.n) ELSE NaN
JsSub(a, b) == IF IsNum(a) /\ IsNum(b) THEN Num(a.n - b.n) ELSE NaN

\* Math.max / Math.min of two values: NaN as soon as one is not a number.
MathMax(a, b) ==
  IF IsNum(a) /\ IsNum(b) THEN (IF a.n >= b.n THEN a ELSE b) ELSE NaN
MathMin(a, b) ==
  IF IsNum(a) /\ IsNum(b) THEN (IF a.n <= b.n THEN a ELSE b) ELSE NaN

----------------------------------------------------------------------------
\* constants.js and the literals of tou-scheduler-card.js

INITIAL_INTERVAL == 200
INTERVAL_CHANGE == 50
INTERVAL_CHANGE_DELAY == 50
INTERVAL_FASTEST == 25
CommitDelay == 2000
DefaultMin == 0
DefaultMax == 100

\* The step of the clock.
Resolution == INTERVAL_FASTEST

\* Bounds of the exploration.
MaxEvents == 4      \* snapshots and user inputs in one run
MaxHoldSteps == 8   \* clock steps a press may last
MaxHoldEvents == 5  \* the same in SpecHold
MaxLongHold == 16   \* the same in SpecHold
MaxEdits == 5       \* snapshots and user inputs in one run of SpecSettings
MaxSetups == 4      \* snapshots and configurations in one run of SpecConfig
MaxFrameEvents == 5 \* snapshots and user inputs in one run of SpecFrame
MaxFrameHold == 6   \* clock steps a press may last in SpecFrame
MaxProtoEvents == 3 \* presses and stops in one run of SpecProto
MaxProtoSteps == 6   \* clock steps in one run of SpecProto
MaxProtoHoldEvents == 2  \* presses and stops in one run of SpecProtoHold
MaxProtoHoldSteps == 76  \* clock steps in one run of SpecProtoHold

ModeOptions ==
  { <<"A", "u", "t", "o", "m", "a", "t", "i", "c">>,
    <<"M", "a", "n", "u", "a", "l">>,
    <<"T", "e", "s", "t", "i", "n", "g">>,
    <<"O", "f", "f">> }
Automatic == Str(<<"A", "u", "t", "o", "m", "a", "t", "i", "c">>)
Manual == Str(<<"M", "a", "n", "u", "a", "l">>)
Testing == Str(<<"T", "e", "s", "t", "i", "n", "g">>)
Off == Str(<<"O", "f", "f">>)

----------------------------------------------------------------------------
\* The browser's timers.  A timer is pending from setTimeout / setInterval
\* until it fires (setTimeout) or is cleared.  ref says whether the field of
\* the instance that received its handle (_timeout for setTimeout, _interval
\* for setInterval) still holds that handle: clearTimeout(this._timeout)
\* reaches the timer only then.

IsTimeout(t) == t.kind \in {"commit", "speedUp"}
IsInterval(t) == t.kind = "interval"

\* The delay the browser applies: a delay that is undefined or NaN counts as
\* 0, and a delay below one step of the clock takes one step.
TimerDelay(v) == IF IsNum(v) /\ v.n >= Resolution THEN v.n ELSE Resolution

\* clearTimeout(this._timeout)
ClearTimeout(ts) == SelectSeq(ts, LAMBDA t : ~(IsTimeout(t) /\ t.ref))

\* clearInterval(this._interval)
ClearInterval(ts) == SelectSeq(ts, LAMBDA t : ~(IsInterval(t) /\ t.ref))

\* this._timeout = setTimeout(callback kind, delay): the field now holds the
\* new handle and no longer the one it held.
SetTimeout(ts, kind, change, delay) ==
  Append([i \in 1..Len(ts) |->
            IF IsTimeout(ts[i]) THEN [ts[i] EXCEPT !.ref = FALSE] ELSE ts[i]],
         [kind |-> kind, change |-> change, left |-> TimerDelay(delay),
          period |-> 0, ref |-> TRUE])

\* this._interval = setInterval(updateManualBoost, delay)
SetInterval(ts, change, delay) ==
  Append([i \in 1..Len(ts) |->
            IF IsInterval(ts[i]) THEN [ts[i] EXCEPT !.ref = FALSE] ELSE ts[i]],
         [kind |-> "interval", change |-> change, left |-> TimerDelay(delay),
          period |-> TimerDelay(delay), ref |-> TRUE])

\* The timer list once timer i has fired: a timeout is gone, an interval is
\* armed again with its period.
Fired(ts, i) ==
  IF IsInterval(ts[i])
  THEN [ts EXCEPT ![i].left = ts[i].period]
  ELSE [j \in 1..(Len(ts) - 1) |-> IF j < i THEN ts[j] ELSE ts[j + 1]]

Pending(kind) == {i \in 1..Len(timers) : timers[i].kind = kind}
Due == {i \in 1..Len(timers) : timers[i].left = 0}

RECURSIVE MinLeft(_, _)
MinLeft(ts, i) ==
  IF i = Len(ts) THEN ts[i].left
  ELSE LET r == MinLeft(ts, i + 1) IN IF ts[i].left < r THEN ts[i].left ELSE r

Elapse(ts, ms) == [i \in 1..Len(ts) |-> [ts[i] EXCEPT !.left = @ - ms]]

----------------------------------------------------------------------------
\* Inputs: configurations and snapshots.

SensorId == Str(<<"s", "e", "n", "s", "o", "r", ".", "t">>)
LightId == Str(<<"l", "i", "g", "h", "t", ".", "t">>)

NoConfig == [defined |-> FALSE, entity |-> Undefined, min |-> Undefined, max |-> Undefined]
Config(e, lo, hi) == [defined |-> TRUE, entity |-> e, min |-> lo, max |-> hi]

Configs ==
  { Config(SensorId, Undefined, Undefined),
    Config(SensorId, Num(2), Num(5)),
    Config(SensorId, Undefined, Num(0)),
    Config(LightId, Undefined, Undefined),
    Config(Undefined, Undefined, Undefined) }

\* An attribute bag is the list of its (key, value) pairs in the order the
\* object lists them.
AttrsA ==
  << <<"manual", Str(<<"9", "8">>)>>, <<"calculated", Str(<<"3", "0">>)>>,
     <<"confidence", Str(<<"5", "0">>)>>, <<"min_soc", Str(<<"2", "0">>)>>,
     <<"load_days", Str(<<"4">>)>>, <<"update_hour", Str(<<"2", "3">>)>> >>
AttrsB ==
  << <<"manual", Str(<<"a", "b">>)>>, <<"calculated", Num(30)>> >>
AttrsC ==
  << <<"manual", Num(150)>>, <<"calculated", Str(<<"3", "0">>)>>,
     <<"confidence", Str(<<"5", "0">>)>>, <<"min_soc", Str(<<"2", "0">>)>>,
     <<"load_days", Str(<<"4">>)>>, <<"update_hour", Str(<<"2", "3">>)>> >>

\* A bag with a malformed confidence, settings out of their ranges and no
\* update_hour.
AttrsD ==
  << <<"manual", Str(<<"4", "0">>)>>, <<"calculated", Num(30)>>,
     <<"confidence", Str(<<"9", "x">>)>>, <<"min_soc", Num(95)>>,
     <<"load_days", Str(<<"-", "3">>)>> >>

NoState == [present |-> FALSE, state |-> Undefined, attributes |-> <<>>]
StateObj(st, attrs) == [present |-> TRUE, state |-> st, attributes |-> attrs]

\* A hass object: states holds at most the entity sensor.t.
NoHass == [defined |-> FALSE, states |-> NoState]
Hass(so) == [defined |-> TRUE, states |-> so]

Snapshots ==
  { Hass(StateObj(Manual, AttrsA)),
    Hass(StateObj(Off, AttrsB)),
    Hass(StateObj(Str(<<>>), AttrsC)),
    Hass(NoState) }

\* hass.states[id]
Lookup(hass, id) == IF id = SensorId THEN hass.states ELSE NoState

\* attributes.key: the value of the pair with that key, undefined without one.
Attr(attrs, key) ==
  IF \E i \in 1..Len(attrs) : attrs[i][1] = key
  THEN attrs[CHOOSE i \in 1..Len(attrs) : attrs[i][1] = key][2]
  ELSE Undefined

\* entity.split(".")[0]
RECURSIVE UpToDot(_)
UpToDot(s) ==
  IF s = <<>> \/ Head(s) = "." THEN <<>> ELSE <<Head(s)>> \o UpToDot(Tail(s))

----------------------------------------------------------------------------
\* utils.js: calculateArcPath.  Coordinates are counted in ten-thousandths of
\* a unit of the 100 x 100 graphic, angles in tenths of a degree.

\* Math.cos at 0, 1.8, 3.6, ... 90 degrees, rounded to four decimals.
CosTable ==
  << 10000, 9995, 9980, 9956, 9921, 9877, 9823, 9759, 9686, 9603,
     9511, 9409, 9298, 9178, 9048, 8910, 8763, 8607, 8443, 8271,
     8090, 7902, 7705, 7501, 7290, 7071, 6845, 6613, 6374, 6129,
     5878, 5621, 5358, 5090, 4818, 4540, 4258, 3971, 3681, 3387,
     3090, 2790, 2487, 2181, 1874, 1564, 1253, 941, 628, 314,
     0 >>

\* The value 1 in ten-thousandths.
Unit == CosTable[1]

\* Math.cos((Math.PI * angle) / 180) for an angle that is a multiple of 1.8
\* degrees, by the symmetries of the cosine.
CosTenths(a) ==
  LET m == a % 3600
      h == IF m > 1800 THEN 3600 - m ELSE m
  IN IF h <= 900 THEN CosTable[(h \div 18) + 1]
     ELSE 0 - CosTable[((1800 - h) \div 18) + 1]

\* Math.sin((Math.PI * angle) / 180)
SinTenths(a) == CosTenths(a - 900)

\* The angle with the offset of 180 degrees forgotten.
ArcAngleFromZero(percent) == IF IsNum(percent) THEN Num(18 * percent.n) ELSE NaN

\* (percent / 100) * 180 - 180, NaN unless percent is a number.
ArcAngle(percent) == IF IsNum(percent) THEN Num(18 * percent.n - 1800) ELSE NaN

\* 50 + radius * Math.cos(...) and 50 + radius * Math.sin(...)
ArcX(radius, angle) ==
  IF IsNum(radius) /\ IsNum(angle) THEN Num(50 * Unit + radius.n * CosTenths(angle.n))
  ELSE NaN
ArcY(radius, angle) ==
  IF IsNum(radius) /\ IsNum(angle) THEN Num(50 * Unit + radius.n * SinTenths(angle.n))
  ELSE NaN

\* The path with its sweep flag off.
PathCounterClockwise(sx, sy, radius, ex, ey) ==
  [ move |-> "M", startX |-> sx, startY |-> sy, arc |-> "A", rx |-> radius,
    ry |-> radius, rotation |-> 0, largeArc |-> 0, sweep |-> 0, endX |-> ex, endY |-> ey ]

\* `M ${startX} ${startY} A ${radius} ${radius} 0 0 1 ${endX} ${endY}`: the
\* tokens of the string, each number written by the template.
Path(sx, sy, radius, ex, ey) ==
  [ move |-> "M", startX |-> sx, startY |-> sy, arc |-> "A", rx |-> radius,
    ry |-> radius, rotation |-> 0, largeArc |-> 0, sweep |-> 1, endX |-> ex, endY |-> ey ]

calculateArcPath(start_percent, end_percent, radius) ==
  LET startAngle == ArcAngle(start_percent)
      endAngle == ArcAngle(end_percent)
  IN Path(ArcX(radius, startAngle), ArcY(radius, startAngle), radius,
          ArcX(radius, endAngle), ArcY(radius, endAngle))

\* No path: the function has not been called.
NoPath == Path(Undefined, Undefined, Undefined, Undefined, Undefined)
NoArc == [start |-> Undefined, end |-> Undefined, radius |-> Undefined, path |-> NoPath]

----------------------------------------------------------------------------
\* The component card (src/tou-scheduler-card).  A handler is an operator
\* from the world before it to the world after it; the world is the instance,
\* its shadow root, the document's listeners, the timers and the render count.

\* The instance after the constructor: no field is assigned.
\* _isChangingValue is read for its truth only; FALSE stands for undefined.
NewCard ==
  [ _config |-> NoConfig, _hass |-> NoHass,
    _boostMode |-> Undefined, _manual |-> Undefined, _calculated |-> Undefined,
    _confidence |-> Undefined, _minSoc |-> Undefined, _loadDays |-> Undefined,
    _update_hour |-> Undefined, update_hour |-> Undefined,
    _isChangingValue |-> FALSE, _currentInterval |-> Undefined ]

\* The shadow root: content is "blank" (nothing, or innerHTML = ""),
\* "warning" (hui-warning) or "card" (the template); popup is the inline
\* style.display of .settings-popup, select the value of #mode-select,
\* buttons the inline style.display of the .button elements, slider the
\* .slider-popup whose inline style.display is block ("" when none is);
\* stdArcBkgd, stdArc, manArcBkgd, manArc the attribute d of the four gauge
\* paths, manNumber the text of #manual-number.
BlankDom ==
  [content |-> "blank", popup |-> "", select |-> Str(<<>>), buttons |-> "", slider |-> "",
   stdArcBkgd |-> NoPath, stdArc |-> NoPath, manArcBkgd |-> NoPath, manArc |-> NoPath,
   manNumber |-> Str(<<>>)]
WarningDom == [BlankDom EXCEPT !.content = "warning"]

\* getTemplate: the option Manual carries the attribute selected.
getTemplate == [BlankDom EXCEPT !.content = "card", !.select = Manual]

World == [card |-> card, dom |-> dom, docListeners |-> docListeners,
          timers |-> timers, renders |-> renders]

\* modeSelect.value = v: the option with that value is selected; without one
\* no option is selected and the value reads "".
SelectValue(v) == IF v.k = "string" /\ v.s \in ModeOptions THEN v ELSE Str(<<>>)

\* The decimal digits of a natural number.
RECURSIVE DigitsOf(_)
DigitsOf(n) ==
  IF n < 10 THEN <<Digits[n + 1]>> ELSE DigitsOf(n \div 10) \o <<Digits[(n % 10) + 1]>>

\* String(v), as textContent = v writes it.
JsString(v) ==
  CASE v.k = "undefined" -> Str(<<"u", "n", "d", "e", "f", "i", "n", "e", "d">>)
    [] v.k = "NaN" -> Str(<<"N", "a", "N">>)
    [] v.k = "number" ->
         Str(IF v.n < 0 THEN <<"-">> \o DigitsOf(0 - v.n) ELSE DigitsOf(v.n))
    [] OTHER -> v

\* The two background arcs: let stdArcBkgdD, let manArcBkgdD.
stdArcBkgdD == calculateArcPath(Num(0), Num(100), Num(40))
manArcBkgdD == calculateArcPath(Num(0), Num(100), Num(50))

\* calculateArcPath(0, percent, radius) for the two gauges: the values the
\* function returns for the whole percents 0..100 are computed once.
GaugePaths ==
  [r \in {40, 50} |-> [p \in 0..100 |-> calculateArcPath(Num(0), Num(p), Num(r))]]
GaugePath(percent, r) ==
  IF IsNum(percent) /\ percent.n \in 0..100 THEN GaugePaths[r][percent.n]
  ELSE calculateArcPath(Num(0), percent, Num(r))

\* _updateHTML with the gauges left as they are: only the buttons are set.
_updateHTMLButtonsOnly(w) ==
  IF w.dom.content = "card"
  THEN [w EXCEPT !.dom.buttons =
          IF w.card._boostMode = Automatic \/ w.card._boostMode = Off
          THEN "none" ELSE "inline-block"]
  ELSE w

\* _updateHTML: the four arcs and the manual number are written from the
\* fields, and the adjustment buttons are hidden in the modes Automatic and
\* Off and shown otherwise.
_updateHTML(w) ==
  IF w.dom.content = "card"
  THEN [w EXCEPT
          !.dom.stdArcBkgd = stdArcBkgdD,
          !.dom.stdArc = GaugePath(w.card._calculated, 40),
          !.dom.manArcBkgd = manArcBkgdD,
          !.dom.manArc = GaugePath(w.card._manual, 50),
          !.dom.manNumber = JsString(w.card._manual),
          !.dom.buttons =
            IF w.card._boostMode = Automatic \/ w.card._boostMode = Off
            THEN "none" ELSE "inline-block"]
  ELSE w

\* The adjustment with the upper bound forgotten.
ClampManualNoMax(cfg, manual, change) ==
  MathMax(Or(cfg.min, Num(DefaultMin)), JsAdd(manual, Num(change)))

\* Math.max(config.min || 0, Math.min(config.max || 100, manual + change))
ClampManual(cfg, manual, change) ==
  MathMax(Or(cfg.min, Num(DefaultMin)),
          MathMin(Or(cfg.max, Num(DefaultMax)), JsAdd(manual, Num(change))))

\* clearTimeout(this._timeout); this._timeout = setTimeout(commit, 2000)
ScheduleCommit(ts) == SetTimeout(ClearTimeout(ts), "commit", 0, Num(CommitDelay))

_updateManualBoostValues(w, change) ==
  LET w1 == [w EXCEPT !.card._manual = ClampManual(w.card._config, w.card._manual, change)]
      w2 == _updateHTML(w1)
  IN [w2 EXCEPT !.timers = ScheduleCommit(w2.timers)]

\* The payload as it was when the card was rendered: the settings of the
\* snapshot, not those of the instance.
PayloadOfSnapshot(c) ==
  LET a == Lookup(c._hass, c._config.entity).attributes
  IN [ boost_mode |-> c._boostMode,
       confidence |-> Or(parseInt(Attr(a, "confidence")), Num(0)),
       load_days |-> Or(parseInt(Attr(a, "load_days")), Num(0)),
       manual_grid_boost |-> c._manual,
       min_battery_soc |-> Or(parseInt(Attr(a, "min_soc")), Num(0)),
       update_hour |-> c.update_hour ]

\* The data of the service call, read when the commit timer fires.
Payload(c) ==
  [ boost_mode |-> c._boostMode, confidence |-> c._confidence,
    load_days |-> c._loadDays, manual_grid_boost |-> c._manual,
    min_battery_soc |-> c._minSoc, update_hour |-> c.update_hour ]

NoCall == Payload(NewCard)

_updateMode(w) ==
  LET w1 == [w EXCEPT !.card._boostMode = w.dom.select]
  IN _updateHTML(_updateManualBoostValues(w1, 0))

_toggleSettingsPopup(w) ==
  IF w.dom.content # "card" THEN w
  ELSE LET w1 == [w EXCEPT !.dom.popup = IF @ = "block" THEN "none" ELSE "block"]
       IN IF w1.dom.popup = "none" THEN _updateManualBoostValues(w1, 0) ELSE w1

\* The sliders of the settings panel: the element id, the field the input
\* listener assigns, and a value the user drags the slider to (within the
\* range of the slider, and none a snapshot of the model reports).
Sliders ==
  { [id |-> "min-soc", field |-> "_minSoc", value |-> Str(<<"1", "5">>)],
    [id |-> "confidence", field |-> "_confidence", value |-> Str(<<"6", "0">>)],
    [id |-> "load", field |-> "_loadDays", value |-> Str(<<"7">>)],
    [id |-> "time", field |-> "_update_hour", value |-> Str(<<"5">>)] }

\* _toggleSliderPopup(id + "-popup"): every slider popup is hidden, then the
\* one named is shown.
_toggleSliderPopup(w, id) == [w EXCEPT !.dom.slider = id]

\* click on a .close-btn: the slider popup it belongs to is hidden.
closeSliderPopup(w) == [w EXCEPT !.dom.slider = ""]

\* The input listener with the value assigned to all four settings.
sliderInputAll(w, sl) ==
  [w EXCEPT !.card._minSoc = parseInt(sl.value),
            !.card._confidence = parseInt(sl.value),
            !.card._loadDays = parseInt(sl.value),
            !.card._update_hour = parseInt(sl.value)]

\* The input listener of a slider: this.<field> = parseInt(slider.value).
sliderInput(w, sl) ==
  [w EXCEPT !.card = [f \in DOMAIN w.card |->
                        IF f = sl.field THEN parseInt(sl.value) ELSE w.card[f]]]

\* _attachEventListeners: the listeners of the new elements belong to the
\* markup; the one on document is added to those already there.
_attachEventListeners(w) == [w EXCEPT !.docListeners = @ + 1]

\* The placeholder branch with the fields of the instance reset.
EntityNotFoundReset(w) ==
  [w EXCEPT !.dom = WarningDom, !.card._manual = Num(0), !.card._boostMode = Off]

\* The branch of render for a snapshot without the entity: the placeholder
\* replaces the markup, and render returns.
EntityNotFound(w) == [w EXCEPT !.dom = WarningDom]

render(w) ==
  LET c == w.card
      stateObj == Lookup(c._hass, c._config.entity)
      a == stateObj.attributes
      boostMode == Or(stateObj.state, Str(<<"o", "f", "f">>))
      w1 == [w EXCEPT
               !.card._boostMode = boostMode,
               !.card._manual = Or(parseInt(Attr(a, "manual")), Num(0)),
               !.card._calculated = Or(parseInt(Attr(a, "calculated")), Num(0)),
               !.card._confidence = Or(parseInt(Attr(a, "confidence")), Num(0)),
               !.card._minSoc = Or(parseInt(Attr(a, "min_soc")), Num(0)),
               !.card._loadDays = Or(parseInt(Attr(a, "load_days")), Num(0)),
               !.card._update_hour = Or(parseInt(Attr(a, "update_hour")), Num(0)),
               !.dom = [getTemplate EXCEPT !.select = SelectValue(boostMode)],
               !.renders = @ + 1]
  IN IF ~c._config.defined \/ ~c._hass.defined THEN [w EXCEPT !.dom = BlankDom]
     ELSE IF ~stateObj.present THEN EntityNotFound(w)
     ELSE _attachEventListeners(_updateHTML(_updateMode(w1)))

\* set hass(hass)
SetHassField(w, h) == render([w EXCEPT !.card._hass = h])

\* The test of setConfig with the domain forgotten.
ConfigRefusedIfMissing(cfg) == ~Truthy(cfg.entity)

\* setConfig(config), the second definition of the class body (the one in
\* force): the configuration is refused with an exception unless its entity
\* is in the sensor domain.
ConfigRefused(cfg) ==
  ~Truthy(cfg.entity) \/ UpToDot(cfg.entity.s) # <<"s", "e", "n", "s", "o", "r">>

setConfig(w, cfg) ==
  IF ConfigRefused(cfg) THEN w ELSE render([w EXCEPT !.card._config = cfg])

----------------------------------------------------------------------------
\* eventHandlers.js

\* startChangingManualBoostValue past its guard: the first adjustment, the
\* repeating timer and the escalation timer.
StartSession(w, change) ==
  LET w1 == [w EXCEPT !.card._isChangingValue = TRUE]
      w2 == _updateManualBoostValues(w1, change)
      ts1 == SetInterval(w2.timers, change, w2.card._currentInterval)
      ts2 == SetTimeout(ClearTimeout(ts1), "speedUp", change,
                        Num(INTERVAL_CHANGE_DELAY))
  IN [w2 EXCEPT !.timers = ts2]

\* The press-start with its guard forgotten.
StartUnguarded(w, change) == StartSession(w, change)

startChangingManualBoostValue(w, change) ==
  IF w.card._isChangingValue THEN w ELSE StartSession(w, change)

\* The next interval with its floor forgotten.
NextIntervalNoFloor(cur) == JsSub(cur, Num(INTERVAL_CHANGE))

\* Math.max(INTERVAL_FASTEST, currentInterval - INTERVAL_CHANGE)
NextInterval(cur) == MathMax(Num(INTERVAL_FASTEST), JsSub(cur, Num(INTERVAL_CHANGE)))

speedUpChange(w, change) ==
  LET w1 == [w EXCEPT !.timers = ClearInterval(@),
                      !.card._currentInterval = NextInterval(@)]
      w2 == _updateManualBoostValues(w1, change)
  IN [w2 EXCEPT !.timers =
        SetTimeout(@, "speedUp", change, w2.card._currentInterval)]

\* The stop with clearTimeout forgotten.
StopTimersKeepTimeout(ts) == ClearInterval(ts)

\* clearInterval(instance._interval); clearTimeout(instance._timeout)
StopTimers(ts) == ClearTimeout(ClearInterval(ts))

\* The stop with the reset of the interval forgotten.
StopKeepInterval(w) ==
  [w EXCEPT !.card._isChangingValue = FALSE, !.timers = StopTimers(@)]

stopChangingValue(w) ==
  [w EXCEPT !.card._isChangingValue = FALSE,
            !.card._currentInterval = Num(INITIAL_INTERVAL),
            !.timers = StopTimers(@)]

\* The www card instance after its constructor; content is what the shadow
\* root shows, renders counts the runs of render() that regenerated the card.
NewWww ==
  [ _initialized |-> FALSE, _hass |-> NoHass, _config |-> NoConfig,
    _entityState |-> Undefined, _entityAttributes |-> <<>>, _rejected_count |-> 0,
    _boostMode |-> Undefined, _manual |-> Undefined, _calculated |-> Undefined,
    content |-> "blank", renders |-> 0 ]

----------------------------------------------------------------------------
\* The inline prototype (src/unnamed/part_000): a script with the variables
\* manual, currentInterval, intervalId and timeoutId.  timers are the pending
\* callbacks, ref saying whether intervalId / timeoutId holds the handle;
\* pressed observes that a press-start came and no stopChange since.

ProtoInitialManual == 33
ProtoInitialInterval == 150
ProtoIntervalChange == 30
ProtoFastest == 30
ProtoFirstDelay == 200
ProtoNextDelay == 500
ProtoMaxManual == 100
ProtoMinManual == 0

NewProto ==
  [ manual |-> ProtoInitialManual, currentInterval |-> ProtoInitialInterval,
    timers |-> <<>>, pressed |-> FALSE ]

\* increment() for +1, decrement() for -1
ProtoStep(p, change) ==
  [p EXCEPT !.manual =
     IF change = 1
     THEN (IF @ + 1 < ProtoMaxManual THEN @ + 1 ELSE ProtoMaxManual)
     ELSE (IF @ - 1 > ProtoMinManual THEN @ - 1 ELSE ProtoMinManual)]

\* startIncrement() / startDecrement()
startChange(p, change) ==
  LET p1 == [ProtoStep(p, change) EXCEPT !.currentInterval = ProtoInitialInterval]
      ts1 == SetInterval(p1.timers, change, Num(p1.currentInterval))
  IN [p1 EXCEPT !.timers = SetTimeout(ts1, "speedUp", change, Num(ProtoFirstDelay))]

\* The speed-up with the test of the floor forgotten: it is always armed again.
ProtoRearmAlways(cur) == TRUE

\* if (currentInterval > 30)
ProtoRearm(cur) == cur > ProtoFastest

\* speedUpIncrement() / speedUpDecrement()
speedUpProto(p, change) ==
  LET cur == IF p.currentInterval - ProtoIntervalChange > ProtoFastest
             THEN p.currentInterval - ProtoIntervalChange ELSE ProtoFastest
      ts1 == SetInterval(ClearInterval(p.timers), change, Num(cur))
  IN [p EXCEPT !.currentInterval = cur,
               !.timers = IF ProtoRearm(cur)
                          THEN SetTimeout(ts1, "speedUp", change, Num(ProtoNextDelay))
                          ELSE ts1]

\* stopChange()
stopChange(p) == [p EXCEPT !.timers = ClearTimeout(ClearInterval(@))]

----------------------------------------------------------------------------
\* The actions of Spec: one per handler, per timer callback, and the clock.

\* arg is the configuration handed to setConfig, error says that the
\* handler ended with an exception.
Event(op, change) == [op |-> op, change |-> change, arg |-> NoConfig, error |-> FALSE]

\* phase: none, down (pressed with nothing pending), up (released), void;
\* base: the calls made before the press; start, manual: the manual value
\* before the press and at the release.
\* snapshot: released, and since then nothing but snapshots has arrived.
\* A burst of edits has the phase mode (mode changes in a row, the first with
\* no press in progress) or slider (slider inputs in a row).
NoGesture ==
  [phase |-> "none", base |-> 0, start |-> Undefined, manual |-> Undefined,
   interval |-> Undefined]

\* The commit the last edit scheduled is still ahead.
CommitAhead == \E i \in 1..Len(timers) :
  timers[i].kind = "commit" /\ timers[i].ref /\ timers[i].left > 0

\* The world after a handler.
Becomes(w) ==
  /\ card' = w.card
  /\ dom' = w.dom
  /\ docListeners' = w.docListeners
  /\ timers' = w.timers
  /\ renders' = w.renders

\* An external event that is no part of a press-and-hold gesture ends the
\* observation of the gesture in progress.
Disturbed == IF gesture.phase = "none" THEN gesture ELSE [gesture EXCEPT !.phase = "void"]

External(op, change) ==
  /\ nEvents < limits.events
  /\ nEvents' = nEvents + 1
  /\ ev' = Event(op, change)
  /\ UNCHANGED <<nCalls, lastCall, limits, proto, arc, www>>

ButtonsShown == dom.content = "card" /\ dom.buttons # "none"

\* The configuration is consumed once, at setup.
SetConfig(cfg) ==
  /\ ~card._config.defined
  /\ Becomes(setConfig(World, cfg))
  /\ ev' = [Event("setConfig", 0) EXCEPT !.arg = cfg, !.error = ConfigRefused(cfg)]
  /\ gesture' = Disturbed
  /\ UNCHANGED <<heldSteps, nEvents, nCalls, lastCall, limits, proto, arc, www>>

\* setConfig called on a card that holds a configuration.
Reconfigure(cfg) ==
  /\ card._config.defined
  /\ nEvents < limits.events
  /\ nEvents' = nEvents + 1
  /\ Becomes(setConfig(World, cfg))
  /\ ev' = [Event("setConfig", 0) EXCEPT !.arg = cfg, !.error = ConfigRefused(cfg)]
  /\ gesture' = Disturbed
  /\ UNCHANGED <<heldSteps, nCalls, lastCall, limits, proto, arc, www>>

SetHass(h) ==
  /\ External("hass", 0)
  /\ Becomes(SetHassField(World, h))
  /\ gesture' = IF gesture.phase \in {"up", "snapshot"}
                THEN [gesture EXCEPT !.phase = "snapshot"]
                ELSE Disturbed
  /\ UNCHANGED heldSteps

\* mousedown on the up (+1) or down (-1) button.
MouseDown(change) ==
  /\ ButtonsShown
  /\ External("press", change)
  /\ Becomes(startChangingManualBoostValue(World, change))
  /\ heldSteps' = IF card._isChangingValue THEN heldSteps ELSE 0
  /\ gesture' = IF ~card._isChangingValue /\ timers = <<>>
                THEN [phase |-> "down", base |-> nCalls, start |-> card._manual,
                      manual |-> Undefined, interval |-> Undefined]
                ELSE Disturbed

\* mouseup or mouseleave on a button, or mouseup anywhere in the document.
MouseUp(src) ==
  /\ IF src = "document" THEN docListeners > 0 ELSE ButtonsShown
  /\ External("stop", 0)
  /\ Becomes(stopChangingValue(World))
  /\ gesture' = IF gesture.phase = "down"
                THEN [gesture EXCEPT !.phase = "up", !.manual = card._manual,
                                     !.interval = card._currentInterval]
                ELSE Disturbed
  /\ UNCHANGED heldSteps

\* change on #mode-select: the user picks another option.
ModeChange(m) ==
  /\ dom.content = "card"
  /\ Str(m) # dom.select
  /\ External("mode", 0)
  /\ Becomes(_updateMode([World EXCEPT !.dom.select = Str(m)]))
  /\ gesture' = IF gesture.phase = "mode" /\ CommitAhead THEN gesture
                ELSE IF ~card._isChangingValue
                THEN [NoGesture EXCEPT !.phase = "mode", !.base = nCalls]
                ELSE Disturbed
  /\ UNCHANGED heldSteps

\* click on .settings-button or on .close-settings-btn.
ToggleSettings ==
  /\ dom.content = "card"
  /\ External("toggle", 0)
  /\ Becomes(_toggleSettingsPopup(World))
  /\ gesture' = Disturbed
  /\ UNCHANGED heldSteps

\* click on the label of a slider, inside the open settings panel.
OpenSlider(id) ==
  /\ dom.content = "card" /\ dom.popup = "block"
  /\ dom.slider # id
  /\ External("openSlider", 0)
  /\ Becomes(_toggleSliderPopup(World, id))
  /\ gesture' = Disturbed
  /\ UNCHANGED heldSteps

\* click on the Close button of the slider popup shown.
CloseSlider ==
  /\ dom.content = "card" /\ dom.popup = "block"
  /\ dom.slider # ""
  /\ External("closeSlider", 0)
  /\ Becomes(closeSliderPopup(World))
  /\ gesture' = Disturbed
  /\ UNCHANGED heldSteps

\* input on the slider shown: the user drags it to another value.
SliderInput(sl) ==
  /\ dom.content = "card" /\ dom.popup = "block"
  /\ dom.slider = sl.id
  /\ card[sl.field] # parseInt(sl.value)
  /\ External("slider", 0)
  /\ Becomes(sliderInput(World, sl))
  /\ gesture' = IF gesture.phase = "slider" THEN gesture
                ELSE [NoGesture EXCEPT !.phase = "slider", !.base = nCalls]
  /\ UNCHANGED heldSteps

Internal(op, change) ==
  /\ ev' = Event(op, change)
  /\ UNCHANGED <<nEvents, heldSteps, gesture, limits, proto, arc, www>>

\* The setInterval callback updateManualBoost.
IntervalTick(i) ==
  /\ i \in Due /\ timers[i].kind = "interval"
  /\ Becomes(_updateManualBoostValues([World EXCEPT !.timers = Fired(timers, i)],
                                      timers[i].change))
  /\ Internal("tick", timers[i].change)
  /\ UNCHANGED <<nCalls, lastCall>>

\* The setTimeout callback () => speedUpChange(instance, change).
SpeedUp(i) ==
  /\ i \in Due /\ timers[i].kind = "speedUp"
  /\ Becomes(speedUpChange([World EXCEPT !.timers = Fired(timers, i)],
                           timers[i].change))
  /\ Internal("speedUp", timers[i].change)
  /\ UNCHANGED <<nCalls, lastCall>>

\* The setTimeout callback of _updateManualBoostValues: the service call.
Commit(i) ==
  /\ i \in Due /\ timers[i].kind = "commit"
  /\ timers' = Fired(timers, i)
  /\ nCalls' = nCalls + 1
  /\ lastCall' = Payload(card)
  /\ Internal("commit", 0)
  /\ UNCHANGED <<card, dom, docListeners, renders>>

\* Time passes during a press: one step of the clock.
Tick ==
  /\ card._isChangingValue
  /\ Due = {}
  /\ heldSteps < limits.hold
  /\ heldSteps' = heldSteps + 1
  /\ timers' = Elapse(timers, Resolution)
  /\ ev' = Event("time", 0)
  /\ UNCHANGED <<card, dom, docListeners, nCalls, lastCall, renders, nEvents,
                 gesture, limits, proto, arc, www>>

\* Time passes with no press in progress: up to the next callback.
Sleep ==
  /\ ~card._isChangingValue
  /\ Due = {} /\ timers # <<>>
  /\ timers' = Elapse(timers, MinLeft(timers, 1))
  /\ ev' = Event("time", 0)
  /\ UNCHANGED <<card, dom, docListeners, nCalls, lastCall, renders, nEvents,
                 gesture, heldSteps, limits, proto, arc, www>>

\* The card after the constructor, for a run within the given bounds.
Constructed(events, hold) ==
  /\ card = NewCard
  /\ dom = BlankDom
  /\ docListeners = 0
  /\ timers = <<>>
  /\ nCalls = 0
  /\ lastCall = NoCall
  /\ renders = 0
  /\ ev = Event("constructor", 0)
  /\ heldSteps = 0
  /\ nEvents = 0
  /\ gesture = NoGesture
  /\ limits = [events |-> events, hold |-> hold]
  /\ proto = NewProto
  /\ www = NewWww

\* The state after the constructor: no call of calculateArcPath is looked at.
Start(events, hold) == Constructed(events, hold) /\ arc = NoArc

Init == Start(MaxEvents, MaxHoldSteps)

Next ==
  \/ \E cfg \in Configs : SetConfig(cfg)
  \/ \E h \in Snapshots : SetHass(h)
  \/ \E change \in {1, -1} : MouseDown(change)
  \/ \E src \in {"button", "document"} : MouseUp(src)
  \/ \E m \in ModeOptions : ModeChange(m)
  \/ ToggleSettings
  \/ \E i \in 1..Len(timers) : IntervalTick(i)
  \/ \E i \in 1..Len(timers) : SpeedUp(i)
  \/ \E i \in 1..Len(timers) : Commit(i)
  \/ Tick
  \/ Sleep

Spec == Init /\ [][Next]_vars

\* Long presses: one configuration, one snapshot.
DefaultConfig == Config(SensorId, Undefined, Undefined)
HassManual == Hass(StateObj(Manual, AttrsA))

InitHold == Start(MaxHoldEvents, MaxLongHold)

NextHold ==
  \/ SetConfig(DefaultConfig)
  \/ SetHass(HassManual)
  \/ \E change \in {1, -1} : MouseDown(change)
  \/ MouseUp("button")
  \/ \E m \in ModeOptions : ModeChange(m)
  \/ \E i \in 1..Len(timers) : IntervalTick(i)
  \/ \E i \in 1..Len(timers) : SpeedUp(i)
  \/ \E i \in 1..Len(timers) : Commit(i)
  \/ Tick
  \/ Sleep

SpecHold == InitHold /\ [][NextHold]_vars

\* The settings panel: no press.
SettingsSnapshots ==
  {HassManual, Hass(StateObj(Off, AttrsB)), Hass(StateObj(Testing, AttrsD))}

InitSettings == Start(MaxEdits, 0)

NextSettings ==
  \/ SetConfig(DefaultConfig)
  \/ \E h \in SettingsSnapshots : SetHass(h)
  \/ MouseUp("document")
  \/ \E m \in ModeOptions : ModeChange(m)
  \/ ToggleSettings
  \/ \E sl \in Sliders : OpenSlider(sl.id)
  \/ CloseSlider
  \/ \E sl \in Sliders : SliderInput(sl)
  \/ \E i \in 1..Len(timers) : Commit(i)
  \/ Sleep

SpecSettings == InitSettings /\ [][NextSettings]_vars

\* Setup: configurations, accepted or not, and snapshots.
ConfigInputs ==
  Configs \cup { Config(Str(<<>>), Undefined, Undefined),
                 Config(Str(<<"s", "e", "n", "s", "o", "r">>), Undefined, Undefined),
                 Config(Str(<<"s", "e", "n", "s", "o", "r", "s", ".", "t">>),
                        Undefined, Undefined) }

InitConfig == Start(MaxSetups, 0)

NextConfig ==
  \/ \E cfg \in ConfigInputs : SetConfig(cfg)
  \/ \E cfg \in ConfigInputs : Reconfigure(cfg)
  \/ \E h \in Snapshots : SetHass(h)
  \/ \E i \in 1..Len(timers) : Commit(i)
  \/ Sleep

SpecConfig == InitConfig /\ [][NextConfig]_vars

\* calculateArcPath on its own: the arguments are drawn at the start, the
\* call computes the path.
ArcPercents ==
  {Undefined, Num(-10), Num(0), Num(30), Num(50), Num(98), Num(100), Num(150)}
ArcRadii == {Undefined, Num(0), Num(1), Num(40), Num(50)}

InitArc ==
  /\ Constructed(0, 0)
  /\ arc \in [start : ArcPercents, end : ArcPercents, radius : ArcRadii, path : {NoPath}]

CallArcPath ==
  /\ arc.path = NoPath
  /\ arc' = [arc EXCEPT !.path = calculateArcPath(arc.start, arc.end, arc.radius)]
  /\ ev' = Event("calculateArcPath", 0)
  /\ UNCHANGED <<card, dom, docListeners, timers, nCalls, lastCall, renders,
                 heldSteps, nEvents, gesture, limits, proto, www>>

NextArc == CallArcPath

SpecArc == InitArc /\ [][NextArc]_vars

\* The settings next to the gauge: snapshots, sliders, presses and mode
\* changes on one configuration.
FrameSnapshots == {HassManual, Hass(StateObj(Testing, AttrsD))}

InitFrame == Start(MaxFrameEvents, MaxFrameHold)

NextFrame ==
  \/ SetConfig(DefaultConfig)
  \/ \E h \in FrameSnapshots : SetHass(h)
  \/ MouseDown(1)
  \/ \E src \in {"button", "document"} : MouseUp(src)
  \/ \E m \in ModeOptions : ModeChange(m)
  \/ ToggleSettings
  \/ \E sl \in Sliders : OpenSlider(sl.id)
  \/ \E sl \in Sliders : SliderInput(sl)
  \/ \E i \in 1..Len(timers) : IntervalTick(i)
  \/ \E i \in 1..Len(timers) : SpeedUp(i)
  \/ \E i \in 1..Len(timers) : Commit(i)
  \/ Tick
  \/ Sleep

SpecFrame == InitFrame /\ [][NextFrame]_vars

\* The inline prototype: presses, stops, the timer callbacks and the clock.
ProtoOthers ==
  UNCHANGED <<card, dom, docListeners, timers, nCalls, lastCall, renders,
              gesture, limits, arc, www>>

\* onmousedown of the up (+1) or down (-1) button.
ProtoPress(change) ==
  /\ nEvents < limits.events
  /\ nEvents' = nEvents + 1
  /\ proto' = [startChange(proto, change) EXCEPT !.pressed = TRUE]
  /\ ev' = Event("protoPress", change)
  /\ UNCHANGED heldSteps
  /\ ProtoOthers

\* onmouseup / onmouseleave of a button.
ProtoStop ==
  /\ nEvents < limits.events
  /\ nEvents' = nEvents + 1
  /\ proto' = [stopChange(proto) EXCEPT !.pressed = FALSE]
  /\ ev' = Event("protoStop", 0)
  /\ UNCHANGED heldSteps
  /\ ProtoOthers

ProtoDue == {i \in 1..Len(proto.timers) : proto.timers[i].left = 0}

\* The setInterval callback increment / decrement.
ProtoTick(i) ==
  /\ i \in ProtoDue /\ proto.timers[i].kind = "interval"
  /\ proto' = ProtoStep([proto EXCEPT !.timers = Fired(@, i)], proto.timers[i].change)
  /\ ev' = Event("protoTick", proto.timers[i].change)
  /\ UNCHANGED <<nEvents, heldSteps>>
  /\ ProtoOthers

\* The setTimeout callback speedUpIncrement / speedUpDecrement.
ProtoSpeedUp(i) ==
  /\ i \in ProtoDue /\ proto.timers[i].kind = "speedUp"
  /\ proto' = speedUpProto([proto EXCEPT !.timers = Fired(@, i)], proto.timers[i].change)
  /\ ev' = Event("protoSpeedUp", proto.timers[i].change)
  /\ UNCHANGED <<nEvents, heldSteps>>
  /\ ProtoOthers

\* Time passes up to the next callback: one step of the run's clock.
ProtoSleep ==
  /\ ProtoDue = {} /\ proto.timers # <<>>
  /\ heldSteps < limits.hold
  /\ heldSteps' = heldSteps + 1
  /\ proto' = [proto EXCEPT !.timers = Elapse(@, MinLeft(@, 1))]
  /\ ev' = Event("time", 0)
  /\ UNCHANGED nEvents
  /\ ProtoOthers

InitProto == Start(MaxProtoEvents, MaxProtoSteps)

NextProto ==
  \/ \E change \in {1, -1} : ProtoPress(change)
  \/ ProtoStop
  \/ \E i \in 1..Len(proto.timers) : ProtoTick(i)
  \/ \E i \in 1..Len(proto.timers) : ProtoSpeedUp(i)
  \/ ProtoSleep

SpecProto == InitProto /\ [][NextProto]_vars

\* The inline prototype held for long: up to the floor of the interval and
\* to the end of the range of manual.
InitProtoHold == Start(MaxProtoHoldEvents, MaxProtoHoldSteps)

SpecProtoHold == InitProtoHold /\ [][NextProto]_vars

----------------------------------------------------------------------------
\* Properties of the component card.

\* The range the configuration states: its min and max where given, 0 and 100
\* where absent.
ConfiguredMin == IF IsNum(card._config.min) THEN card._config.min.n ELSE DefaultMin
ConfiguredMax == IF IsNum(card._config.max) THEN card._config.max.n ELSE DefaultMax

\* The step is a handler that applied an adjustment by change.
Adjusts(change) ==
  /\ ev'.change = change
  /\ \/ ev'.op \in {"tick", "speedUp"}
     \/ ev'.op = "press" /\ ~card._isChangingValue

\* No callback is pending: whatever silence follows, nothing more is sent.
Quiescent == timers = <<>>

\* C1: a press-and-hold gesture that starts with nothing pending, followed by
\* silence until no callback is left, has sent exactly one command, and the
\* command carries the manual value reached at release.
C1_OneCommandPerGesture ==
  (gesture.phase = "up" /\ Quiescent) =>
    (nCalls = gesture.base + 1 /\ lastCall.manual_grid_boost = gesture.manual)

\* C2: at most one commit timer is pending in every reachable state.
C2_OneCommitPending == Cardinality(Pending("commit")) <= 1

\* C3: a snapshot assigned right after the same snapshot, with the entity
\* present, regenerates no markup, attaches no listener and resets no field.
C3_SameSnapshotNoRender ==
  [][(/\ ev.op = "hass" /\ ev'.op = "hass"
      /\ card'._hass = card._hass
      /\ dom.content = "card")
     => (renders' = renders /\ docListeners' = docListeners /\ card' = card)]_vars

\* C5: whenever no press is in progress (after a stop, and before the first
\* press), neither the repeating timer nor the escalation timer is pending,
\* and the handler that ran last was no adjustment callback.
C5_StopEndsAdjustments ==
  ~card._isChangingValue =>
    /\ Pending("interval") = {}
    /\ Pending("speedUp") = {}
    /\ ev.op \notin {"tick", "speedUp"}

\* C5 witness: the stop that ended a press which had lasted two clock steps.
C5_Witness == ev.op = "stop" /\ gesture.phase = "up" /\ heldSteps >= 2

\* C6: a press-start received while a press is in progress changes no field
\* of the instance, no timer and nothing rendered.
C6_PressWhileActiveNoOp ==
  [][(ev'.op = "press" /\ card._isChangingValue)
     => (card' = card /\ timers' = timers /\ dom' = dom)]_vars

\* C6 witness: a press-start was just ignored (an accepted one restarts the
\* count of held steps).
C6_Witness == ev.op = "press" /\ card._isChangingValue /\ heldSteps >= 1

\* C7: a stop signal received with no press in progress, right after a mode
\* change or a settings toggle, leaves the manual value, the mode, the
\* settings and the pending timers as they were.
C7_IdleStopIsNoOp ==
  [][(ev.op \in {"mode", "toggle"} /\ ev'.op = "stop" /\ ~card._isChangingValue)
     => (/\ timers' = timers
         /\ card'._manual = card._manual
         /\ card'._boostMode = card._boostMode
         /\ Payload(card') = Payload(card))]_vars

\* C8: once the card is rendered, the manual value is an integer within the
\* configured range.
C8_ManualInConfiguredRange ==
  dom.content = "card" =>
    /\ IsNum(card._manual)
    /\ ConfiguredMin <= card._manual.n
    /\ card._manual.n <= ConfiguredMax

\* C9: an adjustment by +1 below the configured maximum adds one, and at the
\* maximum leaves the value there; an adjustment by -1 above the configured
\* minimum subtracts one, and at the minimum leaves the value there.
C9_AdjustmentConverges ==
  [][/\ (Adjusts(1) /\ IsNum(card._manual) /\ ConfiguredMin < ConfiguredMax) =>
          /\ card._manual.n < ConfiguredMax => card'._manual = Num(card._manual.n + 1)
          /\ card._manual.n = ConfiguredMax => card'._manual = card._manual
     /\ (Adjusts(-1) /\ IsNum(card._manual) /\ ConfiguredMin < ConfiguredMax) =>
          /\ card._manual.n > ConfiguredMin => card'._manual = Num(card._manual.n - 1)
          /\ card._manual.n = ConfiguredMin => card'._manual = card._manual
    ]_vars

\* C9 witness: a repeat tick by +1 found the value at the maximum it had
\* reached from below, and left it there.
C9_Witness ==
  /\ ev.op = "tick" /\ ev.change = 1
  /\ ConfiguredMin < ConfiguredMax
  /\ gesture.phase = "down"
  /\ gesture.start = Num(ConfiguredMax - 2)
  /\ card._manual = Num(ConfiguredMax)
  /\ heldSteps >= 2

\* C10: every press-start accepted applies one adjustment in its direction,
\* starts the repeating timer at the initial interval and arms the
\* escalation timer with the escalation delay.
C10_PressStartsAtInitialInterval ==
  [][(ev'.op = "press" /\ ~card._isChangingValue) =>
       /\ card'._manual = ClampManual(card._config, card._manual, ev'.change)
       /\ \E i \in 1..Len(timers') :
            /\ timers'[i].kind = "interval"
            /\ timers'[i].period = INITIAL_INTERVAL
            /\ timers'[i].left = INITIAL_INTERVAL
       /\ \E i \in 1..Len(timers') :
            /\ timers'[i].kind = "speedUp"
            /\ timers'[i].left = INTERVAL_CHANGE_DELAY
    ]_vars

\* The repeating timers pending in a timer list.
Intervals(ts) == {i \in 1..Len(ts) : ts[i].kind = "interval"}

\* C11: an escalation leaves exactly one repeating timer running, and that
\* timer runs at the new interval.
C11_EscalationRebuildsInterval ==
  [][ev'.op = "speedUp" =>
       /\ Cardinality(Intervals(timers')) = 1
       /\ \A i \in Intervals(timers') :
            timers'[i].period = TimerDelay(card'._currentInterval)]_vars

\* C12: during a press whose repeat interval has reached the floor, no
\* escalation timer is pending.
C12_NoEscalationAtFloor ==
  (card._isChangingValue /\ card._currentInterval = Num(INTERVAL_FASTEST))
    => Pending("speedUp") = {}

\* The intervals a session passes through from the initial one.
IntervalLadder ==
  {INITIAL_INTERVAL - k * INTERVAL_CHANGE : k \in 0..3} \cup {INTERVAL_FASTEST}

\* C13: in a session that started at the initial interval, an escalation
\* sets the interval to max(floor, previous - step), a value of the sequence
\* 200, 150, 100, 50, 25 that is below the initial interval and not below the
\* floor, applies one adjustment, and arms the next escalation timer with the
\* new interval as its delay.
C13_EscalationLadder ==
  [][(ev'.op = "speedUp" /\ IsNum(card._currentInterval)) =>
       LET prev == card._currentInterval.n
           new == IF prev - INTERVAL_CHANGE >= INTERVAL_FASTEST
                  THEN prev - INTERVAL_CHANGE ELSE INTERVAL_FASTEST
       IN /\ prev \in IntervalLadder
          /\ card'._currentInterval = Num(new)
          /\ new \in IntervalLadder
          /\ new >= INTERVAL_FASTEST /\ new < INITIAL_INTERVAL
          /\ card'._manual = ClampManual(card._config, card._manual, ev'.change)
          /\ \E i \in 1..Len(timers') :
               /\ timers'[i].kind = "speedUp" /\ timers'[i].ref
               /\ timers'[i].change = ev'.change
               /\ timers'[i].left = new]_vars

\* C13 witness: the escalation that found the interval at the floor, in a
\* press that had passed through every interval above it.
C13_Witness ==
  /\ ev.op = "speedUp"
  /\ card._currentInterval = Num(INTERVAL_FASTEST)
  /\ heldSteps >= 15

\* C14: a stop signal sets the interval to the initial value and ends the
\* press, and a press accepted after a stop finds the interval at the initial
\* value and starts its repeating timer with it.
C14_StopResetsInterval ==
  [][/\ ev'.op = "stop" =>
          /\ card'._currentInterval = Num(INITIAL_INTERVAL)
          /\ ~card'._isChangingValue
     /\ (ev'.op = "press" /\ ~card._isChangingValue
           /\ card._currentInterval # Undefined) =>
          /\ card._currentInterval = Num(INITIAL_INTERVAL)
          /\ \E i \in Intervals(timers') :
               /\ timers'[i].ref
               /\ timers'[i].period = INITIAL_INTERVAL
               /\ timers'[i].left = INITIAL_INTERVAL]_vars

\* C14 witness: the stop that ended a press whose interval had come down to
\* 100 ms.
C14_Witness ==
  /\ ev.op = "stop" /\ gesture.phase = "up"
  /\ gesture.interval = Num(INITIAL_INTERVAL - 2 * INTERVAL_CHANGE)
  /\ card._currentInterval = Num(INITIAL_INTERVAL)

\* C15: closing the settings panel makes the service call within the handler
\* of the click, with the payload of the instance at that moment.
C15_CloseCommitsAtOnce ==
  [][(ev'.op = "toggle" /\ dom.content = "card" /\ dom.popup = "block") =>
       /\ dom'.popup = "none"
       /\ nCalls' = nCalls + 1
       /\ lastCall' = Payload(card')]_vars

\* C16: right after a slider input a commit is scheduled 2000 ms ahead.
C16_SliderSchedulesCommit ==
  ev.op = "slider" =>
    \E i \in 1..Len(timers) :
      /\ timers[i].kind = "commit" /\ timers[i].ref
      /\ timers[i].left = CommitDelay

\* C17: the payload of every service call holds the six items of the
\* instance at the time of the call, the forecast-request hour included.
C17_PayloadCarriesSixFields ==
  [][ev'.op = "commit" =>
       lastCall' = [ boost_mode |-> card._boostMode,
                     confidence |-> card._confidence,
                     load_days |-> card._loadDays,
                     manual_grid_boost |-> card._manual,
                     min_battery_soc |-> card._minSoc,
                     update_hour |-> card._update_hour ]]_vars

\* C18: the mode, the confidence, the load days, the manual value and the
\* minimum state of charge of a service call are those of the instance when
\* the commit timer fires.
C18_PayloadReadAtCommit ==
  [][ev'.op = "commit" =>
       /\ lastCall'.boost_mode = card._boostMode
       /\ lastCall'.confidence = card._confidence
       /\ lastCall'.load_days = card._loadDays
       /\ lastCall'.manual_grid_boost = card._manual
       /\ lastCall'.min_battery_soc = card._minSoc]_vars

\* C18 witness: a commit scheduled before a slider input fired after it, with
\* no other input in between, and carries the confidence the slider set.
C18_Witness ==
  /\ ev.op = "commit"
  /\ gesture.phase = "slider" /\ nCalls = gesture.base + 1
  /\ lastCall.confidence = Num(60)
  /\ Lookup(card._hass, card._config.entity).attributes = AttrsA

\* C19: a burst of mode changes, the first with no press in progress and each
\* before the commit of the previous one, followed by silence until no
\* callback is left, has sent exactly one command, with the mode picked last.
C19_ModeBurstOneCommand ==
  (gesture.phase = "mode" /\ Quiescent) =>
    (nCalls = gesture.base + 1 /\ lastCall.boost_mode = dom.select)

\* C20: while the mode is Off, an adjustment by +1 or -1 leaves the manual
\* value as it is.
C20_OffFreezesAdjustment ==
  [][(card._boostMode = Off /\ (Adjusts(1) \/ Adjusts(-1)))
       => card'._manual = card._manual]_vars

\* The four modes of the selector.
Modes == {Automatic, Manual, Testing, Off}

\* C21: once the card is rendered, the mode of the instance is one of
\* Automatic, Manual, Testing and Off.
C21_ModeIsOneOfFour == dom.content = "card" => card._boostMode \in Modes

\* The value is an integer within lo..hi.
Within(v, lo, hi) == IsNum(v) /\ lo <= v.n /\ v.n <= hi

\* C22: once the card is rendered, the four settings are inside their
\* domains.
C22_SettingsInDomain ==
  dom.content = "card" =>
    /\ Within(card._confidence, 10, 90)
    /\ Within(card._minSoc, 10, 90)
    /\ Within(card._loadDays, 1, 10)
    /\ Within(card._update_hour, 0, 23)

\* An attribute is numeric when it is a number, or a string made of an
\* optional sign and decimal digits only.
RECURSIVE AllDigits(_)
AllDigits(s) == s = <<>> \/ (IsDigit(Head(s)) /\ AllDigits(Tail(s)))

IsNumeric(v) ==
  \/ v.k = "number"
  \/ /\ v.k = "string" /\ v.s # <<>>
     /\ LET u == IF Head(v.s) \in {"-", "+"} THEN Tail(v.s) ELSE v.s
        IN u # <<>> /\ AllDigits(u)

\* The integer a numeric attribute stands for, 0 for any other attribute.
IntegerOrZero(v) == IF IsNumeric(v) THEN parseInt(v) ELSE Num(0)

\* The step is a render that regenerated the card.
Rendered == ev'.op \in {"hass", "setConfig"} /\ renders' = renders + 1

\* C23: a render stores, for each of the six attributes, its integer value
\* when it is numeric and 0 when it is absent or not numeric, and produces
\* the card.
C23_AttributesParsedOrZero ==
  [][Rendered =>
       LET a == Lookup(card'._hass, card'._config.entity).attributes
       IN /\ card'._manual = IntegerOrZero(Attr(a, "manual"))
          /\ card'._calculated = IntegerOrZero(Attr(a, "calculated"))
          /\ card'._confidence = IntegerOrZero(Attr(a, "confidence"))
          /\ card'._minSoc = IntegerOrZero(Attr(a, "min_soc"))
          /\ card'._loadDays = IntegerOrZero(Attr(a, "load_days"))
          /\ card'._update_hour = IntegerOrZero(Attr(a, "update_hour"))
          /\ dom'.content = "card"]_vars

\* The entity identifier is a string whose part before the first dot is
\* sensor.
SensorDomain(e) ==
  /\ e.k = "string" /\ Len(e.s) >= 6
  /\ SubSeq(e.s, 1, 6) = <<"s", "e", "n", "s", "o", "r">>
  /\ (Len(e.s) = 6 \/ e.s[7] = ".")

\* C24: setConfig with an entity that is missing, empty or outside the sensor
\* domain ends with an exception and leaves the instance, its configuration
\* and what is rendered as they were; with an entity of the sensor domain it
\* stores the configuration and renders.
C24_SetConfigValidates ==
  [][ev'.op = "setConfig" =>
       IF SensorDomain(ev'.arg.entity)
       THEN /\ ~ev'.error
            /\ card'._config = ev'.arg
            /\ [card |-> card', dom |-> dom', docListeners |-> docListeners',
                timers |-> timers', renders |-> renders']
                 = render([World EXCEPT !.card._config = ev'.arg])
       ELSE /\ ev'.error
            /\ card' = card /\ dom' = dom /\ renders' = renders
            /\ timers' = timers /\ docListeners' = docListeners]_vars

\* C24 witness: a configuration outside the sensor domain was refused by a
\* card that holds a configuration and shows the card.
C24_Witness ==
  /\ ev.op = "setConfig" /\ ev.error
  /\ Truthy(ev.arg.entity)
  /\ card._config.defined /\ dom.content = "card"

\* C25: a snapshot without the configured entity, received by a configured
\* card, shows the placeholder and leaves the mode, the manual and calculated
\* values, the four settings and the pending timers as they were.
C25_MissingEntityPlaceholder ==
  [][(/\ ev'.op = "hass" /\ card._config.defined
      /\ ~Lookup(card'._hass, card._config.entity).present)
     => /\ dom' = WarningDom
        /\ ~ev'.error
        /\ card' = [card EXCEPT !._hass = card'._hass]
        /\ timers' = timers
        /\ renders' = renders]_vars

\* C25 witness: the placeholder replaced a rendered card whose fields had
\* been read from an earlier snapshot.
C25_Witness ==
  /\ ev.op = "hass" /\ dom.content = "warning"
  /\ renders > 0 /\ card._boostMode = Manual /\ IsNum(card._manual)

\* C26: a call of calculateArcPath returns one move and one arc command with
\* both radii equal to the radius given, rotation 0, large-arc flag 0 and
\* sweep flag 1, changes nothing else, and for equal percentages the start
\* point is the end point.
C26_ArcPathForm ==
  [][ev'.op = "calculateArcPath" =>
       LET path == arc'.path
       IN /\ path.move = "M" /\ path.arc = "A"
          /\ path.rx = arc.radius /\ path.ry = arc.radius
          /\ path.rotation = 0 /\ path.largeArc = 0 /\ path.sweep = 1
          /\ arc.start = arc.end =>
               (path.startX = path.endX /\ path.startY = path.endY)
          /\ arc' = [arc EXCEPT !.path = path]
          /\ UNCHANGED <<card, dom, docListeners, timers, nCalls, lastCall, renders>>
    ]_vars

\* C26 witness: a path was computed for equal percentages, and is of length
\* zero.
C26_Witness ==
  /\ ev.op = "calculateArcPath"
  /\ arc.start = Num(50) /\ arc.end = Num(50) /\ arc.radius = Num(40)
  /\ IsNum(arc.path.startX) /\ arc.path.startX = arc.path.endX

\* The point of the upper half of the circle of radius r about (50, 50) at
\* percentage p: by its angle, and by its distance from the centre (in
\* hundredths, to within the rounding of the coordinates).
OnGauge(x, y, p, r) ==
  /\ x = Num(50 * Unit + r * CosTenths(18 * p - 1800))
  /\ y = Num(50 * Unit + r * SinTenths(18 * p - 1800))
  /\ LET dx == (x.n - 50 * Unit) \div 100
         dy == (y.n - 50 * Unit) \div 100
         d == dx * dx + dy * dy - (r * 100) * (r * 100)
     IN d <= 4 * r * 100 /\ 0 - d <= 4 * r * 100
  /\ y.n <= 50 * Unit

\* C27: for percentages within 0..100 and a positive radius, the start and
\* the end of the path are the points of the circle at the two percentages;
\* from 0 to 100 the path starts at (50 - r, 50), ends at (50 + r, 50) and is
\* 2r wide.
C27_ArcEndpoints ==
  (/\ ev.op = "calculateArcPath"
   /\ Within(arc.start, 0, 100) /\ Within(arc.end, 0, 100)
   /\ IsNum(arc.radius) /\ arc.radius.n > 0)
  => LET path == arc.path
         r == arc.radius.n
     IN /\ OnGauge(path.startX, path.startY, arc.start.n, r)
        /\ OnGauge(path.endX, path.endY, arc.end.n, r)
        /\ (arc.start.n = 0 /\ arc.end.n = 100) =>
             /\ path.startX = Num((50 - r) * Unit) /\ path.startY = Num(50 * Unit)
             /\ path.endX = Num((50 + r) * Unit) /\ path.endY = Num(50 * Unit)
             /\ path.endX.n - path.startX.n = 2 * r * Unit

\* C27 witness: the half circle of radius 40 was computed.
C27_Witness ==
  /\ ev.op = "calculateArcPath"
  /\ arc.start = Num(0) /\ arc.end = Num(100) /\ arc.radius = Num(40)
  /\ arc.path.startX = Num(10 * Unit) /\ arc.path.endX = Num(90 * Unit)

\* C28: once the card is rendered, the two foreground arcs are the paths
\* from 0 to the stored manual and calculated values at the radii 50 and 40,
\* the two background arcs are the half circles of these radii, and the
\* manual number reads the stored manual value.
C28_GaugesShowStoredValues ==
  dom.content = "card" =>
    /\ dom.manArc = calculateArcPath(Num(0), card._manual, Num(50))
    /\ dom.stdArc = calculateArcPath(Num(0), card._calculated, Num(40))
    /\ dom.manArcBkgd = calculateArcPath(Num(0), Num(100), Num(50))
    /\ dom.stdArcBkgd = calculateArcPath(Num(0), Num(100), Num(40))
    /\ parseInt(dom.manNumber) = card._manual

\* C28 witness: a repeat tick moved the manual value away from the one of
\* the snapshot, and the gauge followed.
C28_Witness ==
  /\ ev.op = "tick" /\ dom.content = "card"
  /\ card._manual = Num(96)
  /\ dom.manArc.endX = Num(50 * Unit + 50 * CosTenths(18 * 96 - 1800))
  /\ dom.manNumber = Str(<<"9", "6">>)

\* The adjustment buttons are displayed.
ButtonsVisible == dom.buttons # "none"

\* C29: once the card is rendered, the adjustment buttons are visible
\* exactly when the mode is Manual or Testing and hidden exactly when it is
\* Automatic or Off.
C29_ButtonsFollowMode ==
  dom.content = "card" =>
    /\ ButtonsVisible <=> card._boostMode \in {Manual, Testing}
    /\ ~ButtonsVisible <=> card._boostMode \in {Automatic, Off}

\* The four settings: the field of the instance and the attribute of the
\* snapshot it is read from.
Settings ==
  { [field |-> "_confidence", attribute |-> "confidence"],
    [field |-> "_minSoc", attribute |-> "min_soc"],
    [field |-> "_loadDays", attribute |-> "load_days"],
    [field |-> "_update_hour", attribute |-> "update_hour"] }

\* The number a string of digits writes.
RECURSIVE DecimalOf(_)
DecimalOf(digits) ==
  IF digits = <<>> THEN 0
  ELSE 10 * DecimalOf(SubSeq(digits, 1, Len(digits) - 1))
       + (CHOOSE d \in 0..9 : Digits[d + 1] = digits[Len(digits)])
IntegerValue(v) ==
  IF v.k = "number" THEN v
  ELSE IF Head(v.s) = "-" THEN Num(0 - DecimalOf(Tail(v.s)))
  ELSE IF Head(v.s) = "+" THEN Num(DecimalOf(Tail(v.s)))
  ELSE Num(DecimalOf(v.s))

\* C30: each of the four settings holds what the most recent render or
\* slider input delivered.  A render stores the integer value of each
\* numeric attribute; an input on a slider stores the value of that slider
\* in its setting and leaves the other three; every other step (adjustment
\* calls, mode changes, stop signals, the panel, the commit, the clock)
\* leaves the four settings as they are.
C30_SettingsLastWriterWins ==
  [][/\ Rendered =>
          LET a == Lookup(card'._hass, card'._config.entity).attributes
          IN \A st \in Settings :
               IsNumeric(Attr(a, st.attribute))
                 => card'[st.field] = IntegerValue(Attr(a, st.attribute))
     /\ ev'.op = "slider" =>
          \E sl \in Sliders :
            /\ dom.slider = sl.id
            /\ card'[sl.field] = IntegerValue(sl.value)
            /\ \A st \in Settings : st.field # sl.field => card'[st.field] = card[st.field]
     /\ (~Rendered /\ ev'.op # "slider") =>
          \A st \in Settings : card'[st.field] = card[st.field]]_vars

\* C30 witness: a repeat tick of a press that began after the confidence
\* slider was dragged to 60 on a card rendered with confidence 50: the setting
\* is still the one of the slider.
C30_Witness ==
  /\ ev.op = "tick" /\ ev.change = 1
  /\ Attr(card._hass.states.attributes, "confidence") = Str(<<"5", "0">>)
  /\ card._confidence = Num(60)

----------------------------------------------------------------------------
\* The www card (src/www/community/tou-scheduler-card).

\* The bag of AttrsA with its keys listed in another order.
AttrsAReordered ==
  << <<"calculated", Str(<<"3", "0">>)>>, <<"manual", Str(<<"9", "8">>)>>,
     <<"confidence", Str(<<"5", "0">>)>>, <<"min_soc", Str(<<"2", "0">>)>>,
     <<"load_days", Str(<<"4">>)>>, <<"update_hour", Str(<<"2", "3">>)>> >>

WwwSnapshots ==
  { Hass(StateObj(Manual, AttrsA)),
    Hass(StateObj(Manual, AttrsAReordered)),
    Hass(StateObj(Off, AttrsA)),
    Hass(StateObj(Off, AttrsB)),
    Hass(NoState) }

WwwConfigs == { Config(SensorId, Undefined, Undefined), Config(LightId, Undefined, Undefined) }

\* JSON.stringify of an attribute bag: the members in the order the object
\* lists them, a member whose value is undefined left out, NaN written null.
JsonMember(pair) ==
  <<pair[1], IF pair[2].k = "NaN" THEN "null" ELSE pair[2].k, pair[2].n, pair[2].s>>

RECURSIVE JsonStringify(_)
JsonStringify(attrs) ==
  IF attrs = <<>> THEN <<>>
  ELSE (IF Head(attrs)[2].k = "undefined" THEN <<>> ELSE <<JsonMember(Head(attrs))>>)
       \o JsonStringify(Tail(attrs))

\* The www card's render(): the fields are read from the snapshot and the
\* markup is regenerated.
WwwRender(c) ==
  LET stateObj == Lookup(c._hass, c._config.entity)
      a == stateObj.attributes
  IN IF ~c._config.defined \/ ~c._hass.defined THEN [c EXCEPT !.content = "blank"]
     ELSE IF ~stateObj.present THEN [c EXCEPT !.content = "warning"]
     ELSE [c EXCEPT !._boostMode = Or(stateObj.state, Str(<<"o", "f", "f">>)),
                    !._manual = Or(parseInt(Attr(a, "manual")), Num(0)),
                    !._calculated = Or(parseInt(Attr(a, "calculated")), Num(0)),
                    !.content = "card",
                    !.renders = @ + 1]

\* The test of _updateCard: the state string or the serialized bag differs.
SnapshotChanged(c, stateObj) ==
  \/ c._entityState # stateObj.state
  \/ JsonStringify(c._entityAttributes) # JsonStringify(stateObj.attributes)

_updateCard(c) ==
  LET stateObj == Lookup(c._hass, c._config.entity)
  IN IF ~c._config.defined \/ ~c._hass.defined
     THEN [c EXCEPT !._rejected_count = @ + 1]
     ELSE LET c1 == [c EXCEPT !._rejected_count = 0]
          IN IF ~stateObj.present THEN [c1 EXCEPT !.content = "warning"]
             ELSE IF SnapshotChanged(c1, stateObj)
             THEN WwwRender([c1 EXCEPT !._entityState = stateObj.state,
                                       !._entityAttributes = stateObj.attributes])
             ELSE c1

\* set hass(hass): fresh says the object is another one than the one held.
WwwSetHassField(c, h, fresh) ==
  IF ~fresh /\ c._hass = h THEN c ELSE _updateCard([c EXCEPT !._hass = h])

WwwStep(op) ==
  /\ nEvents < limits.events
  /\ nEvents' = nEvents + 1
  /\ ev' = Event(op, 0)
  /\ UNCHANGED <<card, dom, docListeners, timers, nCalls, lastCall, renders,
                 heldSteps, gesture, limits, proto, arc>>

WwwSetHass(h, fresh) ==
  /\ WwwStep("hass")
  /\ www' = WwwSetHassField(www, h, fresh)

WwwSetConfig(cfg) ==
  /\ WwwStep("setConfig")
  /\ www' = [www EXCEPT !._config = cfg]

\* connectedCallback
WwwConnected ==
  /\ WwwStep("connected")
  /\ www' = IF www._initialized THEN www
            ELSE [WwwRender(www) EXCEPT !._initialized = TRUE]

NextWww ==
  \/ \E h \in WwwSnapshots, fresh \in BOOLEAN : WwwSetHass(h, fresh)
  \/ \E cfg \in WwwConfigs : WwwSetConfig(cfg)
  \/ WwwConnected

SpecWww == Init /\ [][NextWww]_vars

\* The two bags hold the same keys with the same values.
SameBag(a, b) ==
  /\ {a[i][1] : i \in 1..Len(a)} = {b[i][1] : i \in 1..Len(b)}
  /\ \A i \in 1..Len(a) : Attr(b, a[i][1]) = Attr(a, a[i][1])

\* C4: with the configuration set and the entity present, a snapshot assigned
\* re-renders exactly when its state string or its attribute values differ
\* from the cached ones, and after a re-render the cache is that snapshot.
C4_RerenderIffChanged ==
  [][(/\ ev'.op = "hass"
      /\ www'._hass # www._hass
      /\ www._config.defined
      /\ Lookup(www'._hass, www._config.entity).present)
     => LET so == Lookup(www'._hass, www._config.entity)
        IN /\ (www'.renders = www.renders + 1)
                <=> (\/ www._entityState # so.state
                     \/ ~SameBag(www._entityAttributes, so.attributes))
           /\ (www'.renders = www.renders + 1)
                => (/\ www'._entityState = so.state
                    /\ www'._entityAttributes = so.attributes)]_vars

\* C31: in the www card, a snapshot with the cached state string and an
\* attribute bag of the same keys with the same values as the cached one,
\* in whatever order, triggers no re-render.
C31_ComparisonByValue ==
  [][(/\ ev'.op = "hass"
      /\ www._config.defined
      /\ Lookup(www'._hass, www._config.entity).present
      /\ www._entityState = Lookup(www'._hass, www._config.entity).state
      /\ SameBag(www._entityAttributes,
                 Lookup(www'._hass, www._config.entity).attributes))
     => www'.renders = www.renders]_vars

\* C35: in the www card, after a snapshot other than the one held is
\* received and contains the configured entity, the surface shows the gauges
\* and not the warning.
C35_PresentEntityShowsGauges ==
  [][(/\ ev'.op = "hass"
      /\ www'._hass # www._hass
      /\ www._config.defined
      /\ Lookup(www'._hass, www._config.entity).present)
     => www'.content = "card"]_vars

\* A commit callback is pending among the timers.
CommitPending(ts) == \E i \in 1..Len(ts) : ts[i].kind = "commit"

\* C32: receiving a snapshot schedules no outbound command: with no commit
\* pending before the assignment of hass, none is pending after it.
C32_SnapshotSchedulesNothing ==
  [][(ev'.op = "hass" /\ ~CommitPending(timers)) => ~CommitPending(timers')]_vars

\* C33: after a press-and-hold gesture that sent nothing while it lasted,
\* followed by snapshots only, the next command carries the manual value
\* reached at release.
C33_EditSurvivesSnapshot ==
  [][(/\ ev'.op = "commit"
      /\ gesture.phase = "snapshot"
      /\ nCalls = gesture.base)
     => lastCall'.manual_grid_boost = gesture.manual]_vars

\* A timer that will apply a further adjustment is pending: the repeating
\* interval or the escalation timeout.
AdjustmentPending ==
  \E i \in 1..Len(timers) : timers[i].kind \in {"interval", "speedUp"}

\* C34: while a press-and-hold session is active, a timer that will apply a
\* further adjustment is pending.
C34_HoldKeepsAdjusting == card._isChangingValue => AdjustmentPending

\* C36: at most one mouseup listener of the instance is registered on the
\* document.
C36_OneDocumentListener == docListeners <= 1

----------------------------------------------------------------------------
\* Properties of the inline prototype.

\* C37: after stopChange, and until the next press, no interval and no
\* timeout of a press is pending (so manual changes no more).
C37_StopClearsEverything == ~proto.pressed => proto.timers = <<>>

\* The speed-up timeouts and the repeating intervals pending.
ProtoTimeouts(p) == {i \in 1..Len(p.timers) : p.timers[i].kind = "speedUp"}
ProtoIntervals(p) == {i \in 1..Len(p.timers) : p.timers[i].kind = "interval"}

\* C38: manual is within 0..100 and currentInterval within 30..150; a
\* speed-up lowers currentInterval by 30, not below 30; while the result is
\* above 30 it arms the next speed-up, and once it is 30 it arms none, the
\* interval it started repeating every 30 ms.
C38_ProtoRanges ==
  /\ [](/\ proto.manual \in ProtoMinManual..ProtoMaxManual
        /\ proto.currentInterval \in ProtoFastest..ProtoInitialInterval)
  /\ [][ev'.op = "protoSpeedUp" =>
         /\ proto'.currentInterval =
              (IF proto.currentInterval - ProtoIntervalChange > ProtoFastest
               THEN proto.currentInterval - ProtoIntervalChange ELSE ProtoFastest)
         /\ Cardinality(ProtoTimeouts(proto')) =
              (IF proto'.currentInterval > ProtoFastest
               THEN Cardinality(ProtoTimeouts(proto))
               ELSE Cardinality(ProtoTimeouts(proto)) - 1)
         /\ \E i \in ProtoIntervals(proto') :
              /\ proto'.timers[i].ref
              /\ proto'.timers[i].period = proto'.currentInterval
              /\ proto'.timers[i].left = proto'.currentInterval]_vars

\* C38 witness: held up to the floor and on to the end of the range: the
\* interval repeats every 30 ms, no speed-up is pending, manual is 100.
C38_Witness ==
  /\ ev.op = "protoTick"
  /\ proto.pressed
  /\ proto.currentInterval = ProtoFastest
  /\ ProtoTimeouts(proto) = {}
  /\ \E i \in ProtoIntervals(proto) : proto.timers[i].period = ProtoFastest
  /\ proto.manual = ProtoMaxManual

====
